---- MODULE Spec2Model ----
(***************************************************************************)
(* Model of the Mach-O bind-opcode interpreter of src/src/mach/imports.rs: *)
(* BindInformation (the binding record), Import::new (the emission) and    *)
(* BindInterpreter::{new, imports, run} (the two passes over the opcode    *)
(* streams).  One action is one iteration of the `while` loop of run(),    *)
(* one per opcode; two more actions are the return of each pass.           *)
(*                                                                         *)
(* 64-bit values (seg_offset, addend, fileoff, vmaddr, decoded LEB128      *)
(* operands) are kept at their width as ten base-128 digits, least         *)
(* significant first, the tenth digit holding bit 63 only: the digits are  *)
(* exactly the 7-bit groups of a LEB128 encoding, and sums are carried     *)
(* digit by digit so that wrapping and overflow are those of u64.          *)
(***************************************************************************)
EXTENDS Integers, Sequences, FiniteSets, TLC

\* ------------------------------------------------------------- bounds

\* Number of encoded fragments an input buffer is assembled from.
MaxOps == 2

\* Largest repeat count of DO_BIND_ULEB_TIMES_SKIPPING_ULEB the model unrolls.
MaxCount == 4

\* Largest amount special_dylib and bind_type are shifted by (modulo 16)
\* when an iteration is compared with itself on other values of the two
\* fields.
MaxMarker == 1

\* ------------------------------------------------ bind_opcodes constants

BIND_OPCODE_MASK == 240
BIND_IMMEDIATE_MASK == 15
BIND_TYPE_POINTER == 1
BIND_SYMBOL_FLAGS_WEAK_IMPORT == 1

BIND_OPCODE_DONE == 0
BIND_OPCODE_SET_DYLIB_ORDINAL_IMM == 16
BIND_OPCODE_SET_DYLIB_ORDINAL_ULEB == 32
BIND_OPCODE_SET_DYLIB_SPECIAL_IMM == 48
BIND_OPCODE_SET_SYMBOL_TRAILING_FLAGS_IMM == 64
BIND_OPCODE_SET_TYPE_IMM == 80
BIND_OPCODE_SET_ADDEND_SLEB == 96
BIND_OPCODE_SET_SEGMENT_AND_OFFSET_ULEB == 112
BIND_OPCODE_ADD_ADDR_ULEB == 128
BIND_OPCODE_DO_BIND == 144
BIND_OPCODE_DO_BIND_ADD_ADDR_ULEB == 160
BIND_OPCODE_DO_BIND_ADD_ADDR_IMM_SCALED == 176
BIND_OPCODE_DO_BIND_ULEB_TIMES_SKIPPING_ULEB == 192

\* opcode & BIND_OPCODE_MASK and opcode & BIND_IMMEDIATE_MASK on a byte: the
\* masks select its high and its low four bits.
OpcodeOf(byte) == (byte \div 16) * 16
ImmediateOf(byte) == byte % 16

\* --------------------------------------------------- 64-bit arithmetic

Digits == 1..10

\* The weight of digit i: 128, but 2 for the tenth digit (bit 63 alone).
Base(i) == IF i = 10 THEN 2 ELSE 128

Zero64 == [i \in Digits |-> 0]

RECURSIVE DigitOf(_, _)
DigitOf(n, i) == IF i = 1 THEN n % 128 ELSE DigitOf(n \div 128, i - 1)

\* A small natural number (below 2^28) as a 64-bit value.
ToU64(n) == [i \in Digits |-> IF i <= 4 THEN DigitOf(n, i) ELSE 0]

\* The carries of a + b: the carry into each digit, and into position 11 the
\* carry out of bit 63.
RECURSIVE Carries(_, _, _)
Carries(a, b, cs) ==
    IF Len(cs) = 11 THEN cs
    ELSE LET i == Len(cs)
         IN  Carries(a, b, Append(cs, (a[i] + b[i] + cs[i]) \div Base(i)))

\* The carry into digit i of a + b (i = 11: the carry out of bit 63).
CarryInto(a, b, i) == Carries(a, b, <<0>>)[i]

\* u64::wrapping_add
WrappingAdd(a, b) ==
    LET cs == Carries(a, b, <<0>>)
    IN  [i \in Digits |-> (a[i] + b[i] + cs[i]) % Base(i)]

\* Whether a + b exceeds u64::MAX.
Overflows(a, b) == CarryInto(a, b, 11) = 1

\* `as u8` on a 64-bit value: its low eight bits.
AsU8(v) == v[1] + 128 * (v[2] % 2)

\* A 64-bit value that is below 128, as a number (-1 when it is not).
SmallValue(v) == IF \A i \in 2..10 : v[i] = 0 THEN v[1] ELSE -1

\* ------------------------------------------------- decoding primitives
\* The reads of the byte buffer the interpreter relies on (gread::<i8>,
\* Uleb128::read, Sleb128::read, pread::<&str>).  Offsets are 0-based, as in
\* the code; d[off + 1] is the byte at offset off.  Every read is bounded by
\* the buffer, never by a range.

\* gread::<i8>: a one-byte read succeeds inside the buffer only.
CanReadByte(d, off) == off < Len(d)

\* The number of bytes of the LEB128 value at off: bytes are taken while the
\* continuation bit (128) is set.  0 when the value is truncated by the end of
\* the buffer, or malformed: a tenth byte (bit 63 and up) other than those in
\* last.
RECURSIVE LebSize(_, _, _, _)
LebSize(d, off, k, last) ==
    IF ~CanReadByte(d, off + k) THEN 0
    ELSE LET byte == d[off + k + 1]
         IN  IF k = 9 /\ byte \notin last THEN 0
             ELSE IF byte < 128 THEN k + 1
             ELSE LebSize(d, off, k + 1, last)

\* Uleb128::read: each byte contributes its low 7 bits, least significant
\* group first.
Uleb128Read(d, off) ==
    LET n == LebSize(d, off, 0, {0, 1})
    IN  [ok    |-> n > 0,
         size  |-> n,
         value |-> [i \in Digits |-> IF i <= n THEN d[off + i] % Base(i) ELSE 0]]

\* Sleb128::read: as above, sign-extended from bit 6 of the last byte when
\* the value is shorter than 64 bits.  The result is the two's-complement
\* bit pattern of the i64.
Sleb128Read(d, off) ==
    LET n == LebSize(d, off, 0, {0, 127})
        negative == n > 0 /\ n < 10 /\ (d[off + n] \div 64) % 2 = 1
    IN  [ok    |-> n > 0,
         size  |-> n,
         value |-> [i \in Digits |->
                      IF i <= n THEN d[off + i] % Base(i)
                      ELSE IF negative THEN Base(i) - 1 ELSE 0]]

\* The offset of the first null byte at or after off; Len(d) when none.
RECURSIVE NullAt(_, _)
NullAt(d, off) ==
    IF off >= Len(d) THEN Len(d)
    ELSE IF d[off + 1] = 0 THEN off
    ELSE NullAt(d, off + 1)

\* pread::<&str>: the bytes from off up to the terminating null; fails when
\* off is outside the buffer or no terminator is found within the buffer.
StrRead(d, off) ==
    LET z == NullAt(d, off)
    IN  [ok    |-> off < Len(d) /\ z < Len(d),
         value |-> IF z < Len(d) THEN SubSeq(d, off + 1, z) ELSE << >>]

\* ----------------------------------------------------- BindInformation

\* BindInformation::default
BindInformationDefault ==
    [seg_index              |-> 0,
     seg_offset             |-> Zero64,
     bind_type              |-> 0,
     special_dylib          |-> 1,
     symbol_library_ordinal |-> 0,
     symbol_name            |-> << >>,
     symbol_flags           |-> 0,
     addend                 |-> Zero64,
     is_lazy                |-> FALSE]

\* A BindInformation::new that forgets the lazy pass's pointer type.
BindInformationNewUntyped(lazy) == [BindInformationDefault EXCEPT !.is_lazy = lazy]

\* BindInformation::new
BindInformationNew(lazy) ==
    IF lazy
    THEN [BindInformationDefault EXCEPT !.is_lazy = TRUE,
                                        !.bind_type = BIND_TYPE_POINTER]
    ELSE BindInformationDefault

\* BindInformation::is_weak: symbol_flags & BIND_SYMBOL_FLAGS_WEAK_IMPORT != 0
IsWeak(bi) == (bi.symbol_flags \div BIND_SYMBOL_FLAGS_WEAK_IMPORT) % 2 = 1

\* ------------------------------------------------------------- state

VARIABLES
    data,               \* BindInterpreter.data: the byte buffer
    location,           \* BindInterpreter.location: the eager range
    lazy_location,      \* BindInterpreter.lazy_location: the lazy range
    libs,               \* imports(libs, ..): the library-name table
    segments,           \* imports(.., segments, ..): the segment table
    ctx_size,           \* imports(.., ctx): ctx.size(), the pointer width
    overflow_checks,    \* the build profile: TRUE when `+` panics on overflow
    pc,                 \* "run" inside run(), "returned" after imports()
    is_lazy,            \* run(is_lazy, ..): which pass is running
    bind_info,          \* run: let mut bind_info
    offset,             \* run: let mut offset
    start_of_sequence,  \* run: let mut start_of_sequence
    imports,            \* imports: let mut imports
    ret,                \* what imports() gave the caller
    log,                \* history: the opcodes executed so far
    passes,             \* the locals of run(false) and run(true), run apart
    previous            \* what the call before this one gave the caller

inputs == <<data, location, lazy_location, libs, segments, ctx_size, overflow_checks>>
vars == <<data, location, lazy_location, libs, segments, ctx_size, overflow_checks,
          pc, is_lazy, bind_info, offset, start_of_sequence, imports, ret, log,
          passes, previous>>

\* ------------------------------------------------------------ Import

\* A `+` on u64: panics on overflow when the build checks overflow, wraps
\* otherwise.
CheckedAdd(a, b) ==
    [panicked |-> overflow_checks /\ Overflows(a, b),
     value    |-> WrappingAdd(a, b)]

NoImport == [name |-> << >>, dylib |-> "", is_lazy |-> FALSE, offset |-> Zero64,
             size |-> 0, address |-> Zero64, addend |-> Zero64, is_weak |-> FALSE,
             start_of_sequence_offset |-> 0]

\* An import size that follows the pointer width.
ImportSizeOfPointer(bi) == IF bi.is_lazy THEN ctx_size ELSE 0

\* `size` of an import
ImportSize(bi) == IF bi.is_lazy THEN 8 ELSE 0

\* Import::new.  Indexing either table out of range panics, and so does an
\* overflowing base + seg_offset in a build that checks overflow; the
\* segment is looked up first, the library last.
ImportNew(bi, sos) ==
    IF bi.seg_index >= Len(segments)
    THEN [panicked |-> TRUE, value |-> NoImport]
    ELSE LET segment == segments[bi.seg_index + 1]
             off     == CheckedAdd(segment.fileoff, bi.seg_offset)
             addr    == CheckedAdd(segment.vmaddr, bi.seg_offset)
         IN  IF off.panicked \/ addr.panicked
                \/ bi.symbol_library_ordinal >= Len(libs)
             THEN [panicked |-> TRUE, value |-> NoImport]
             ELSE [panicked |-> FALSE,
                   value |->
                     [name     |-> bi.symbol_name,
                      dylib    |-> libs[bi.symbol_library_ordinal + 1],
                      is_lazy  |-> bi.is_lazy,
                      offset   |-> off.value,
                      size     |-> ImportSize(bi),
                      address  |-> addr.value,
                      addend   |-> bi.addend,
                      is_weak  |-> IsWeak(bi),
                      start_of_sequence_offset |-> sos]]

\* A push at the front of the list.
PushFront(imps, import) == <<import>> \o imps

\* imports.push(import)
Push(imps, import) == Append(imps, import)

\* ----------------------------------------------------- opcode handlers
\* The outcome of one iteration of the loop of run(): the locals after it,
\* and whether it went on ("ok"), returned a decode error through `?`
\* ("decode") or panicked ("panic").  off is the cursor after the opcode
\* byte was read.

Outcome(status, bi, off, sos, imps) ==
    [status |-> status, bind_info |-> bi, offset |-> off,
     start_of_sequence |-> sos, imports |-> imps]

\* The range of the running pass.
Location(lazy) == IF lazy THEN lazy_location ELSE location

\* A DONE that records the offset of its own opcode byte.
OnDoneAtOpcode(bi, off, sos, imps, imm) ==
    [status |-> "ok", bind_info |-> BindInformationNew(bi.is_lazy), offset |-> off,
     start_of_sequence |-> off - 1 - (IF bi.is_lazy THEN lazy_location ELSE location).start,
     imports |-> imps]

\* BIND_OPCODE_DONE
OnDone(bi, off, sos, imps, imm) ==
    Outcome("ok", BindInformationNew(bi.is_lazy), off,
            off - Location(bi.is_lazy).start, imps)

\* BIND_OPCODE_SET_DYLIB_ORDINAL_IMM
OnSetDylibOrdinalImm(bi, off, sos, imps, imm) ==
    Outcome("ok", [bi EXCEPT !.symbol_library_ordinal = imm], off, sos, imps)

\* BIND_OPCODE_SET_DYLIB_ORDINAL_ULEB
OnSetDylibOrdinalUleb(bi, off, sos, imps, imm) ==
    LET r == Uleb128Read(data, off)
    IN  IF ~r.ok THEN Outcome("decode", bi, off, sos, imps)
        ELSE Outcome("ok", [bi EXCEPT !.symbol_library_ordinal = AsU8(r.value)],
                     off + r.size, sos, imps)

\* A SET_DYLIB_SPECIAL_IMM that takes its immediate for the library ordinal
\* as well.
OnSetDylibSpecialImmAsOrdinal(bi, off, sos, imps, imm) ==
    Outcome("ok", [bi EXCEPT !.special_dylib = imm, !.symbol_library_ordinal = imm],
            off, sos, imps)

\* BIND_OPCODE_SET_DYLIB_SPECIAL_IMM
OnSetDylibSpecialImm(bi, off, sos, imps, imm) ==
    Outcome("ok", [bi EXCEPT !.special_dylib = imm], off, sos, imps)

\* BIND_OPCODE_SET_SYMBOL_TRAILING_FLAGS_IMM
OnSetSymbolTrailingFlagsImm(bi, off, sos, imps, imm) ==
    LET r == StrRead(data, off)
    IN  IF ~r.ok THEN Outcome("decode", bi, off, sos, imps)
        ELSE Outcome("ok", [bi EXCEPT !.symbol_name = r.value, !.symbol_flags = imm],
                     off + Len(r.value) + 1, sos, imps)

\* A SET_TYPE_IMM that leaves the cursor on its opcode byte.
OnSetTypeImmStays(bi, off, sos, imps, imm) ==
    Outcome("ok", [bi EXCEPT !.bind_type = imm], off - 1, sos, imps)

\* BIND_OPCODE_SET_TYPE_IMM
OnSetTypeImm(bi, off, sos, imps, imm) ==
    Outcome("ok", [bi EXCEPT !.bind_type = imm], off, sos, imps)

\* BIND_OPCODE_SET_ADDEND_SLEB
OnSetAddendSleb(bi, off, sos, imps, imm) ==
    LET r == Sleb128Read(data, off)
    IN  IF ~r.ok THEN Outcome("decode", bi, off, sos, imps)
        ELSE Outcome("ok", [bi EXCEPT !.addend = r.value], off + r.size, sos, imps)

\* BIND_OPCODE_SET_SEGMENT_AND_OFFSET_ULEB
OnSetSegmentAndOffsetUleb(bi, off, sos, imps, imm) ==
    LET r == Uleb128Read(data, off)
    IN  IF ~r.ok THEN Outcome("decode", bi, off, sos, imps)
        ELSE Outcome("ok", [bi EXCEPT !.seg_index = imm, !.seg_offset = r.value],
                     off + r.size, sos, imps)

\* BIND_OPCODE_ADD_ADDR_ULEB
OnAddAddrUleb(bi, off, sos, imps, imm) ==
    LET r == Uleb128Read(data, off)
    IN  IF ~r.ok THEN Outcome("decode", bi, off, sos, imps)
        ELSE Outcome("ok", [bi EXCEPT !.seg_offset = WrappingAdd(@, r.value)],
                     off + r.size, sos, imps)

\* A DO_BIND that advances seg_offset before it builds the import.
OnDoBindAdvancesFirst(bi, off, sos, imps, imm) ==
    LET advanced == [bi EXCEPT !.seg_offset = WrappingAdd(@, ToU64(ctx_size))]
        r == ImportNew(advanced, sos)
    IN  IF r.panicked THEN Outcome("panic", bi, off, sos, imps)
        ELSE Outcome("ok", advanced, off, sos, Push(imps, r.value))

\* BIND_OPCODE_DO_BIND
OnDoBind(bi, off, sos, imps, imm) ==
    LET r == ImportNew(bi, sos)
    IN  IF r.panicked THEN Outcome("panic", bi, off, sos, imps)
        ELSE Outcome("ok",
                     [bi EXCEPT !.seg_offset = WrappingAdd(@, ToU64(ctx_size))],
                     off, sos, Push(imps, r.value))

\* BIND_OPCODE_DO_BIND_ADD_ADDR_ULEB: the import is pushed before the
\* operand is read.
OnDoBindAddAddrUleb(bi, off, sos, imps, imm) ==
    LET r == ImportNew(bi, sos)
        u == Uleb128Read(data, off)
    IN  IF r.panicked THEN Outcome("panic", bi, off, sos, imps)
        ELSE IF ~u.ok THEN Outcome("decode", bi, off, sos, Push(imps, r.value))
        ELSE Outcome("ok",
                     [bi EXCEPT !.seg_offset =
                         WrappingAdd(WrappingAdd(@, u.value), ToU64(ctx_size))],
                     off + u.size, sos, Push(imps, r.value))

\* A scaled bind that advances by immediate * pointer_size only.
OnDoBindAddAddrImmScaledOnly(bi, off, sos, imps, imm) ==
    LET r == ImportNew(bi, sos)
    IN  IF r.panicked THEN Outcome("panic", bi, off, sos, imps)
        ELSE Outcome("ok",
                     [bi EXCEPT !.seg_offset = WrappingAdd(@, ToU64(imm * ctx_size))],
                     off, sos, Push(imps, r.value))

\* BIND_OPCODE_DO_BIND_ADD_ADDR_IMM_SCALED
OnDoBindAddAddrImmScaled(bi, off, sos, imps, imm) ==
    LET r == ImportNew(bi, sos)
    IN  IF r.panicked THEN Outcome("panic", bi, off, sos, imps)
        ELSE Outcome("ok",
                     [bi EXCEPT !.seg_offset =
                         WrappingAdd(WrappingAdd(@, ToU64(imm * ctx_size)),
                                     ToU64(ctx_size))],
                     off, sos, Push(imps, r.value))

\* The `for _i in 0..count` loop of DO_BIND_ULEB_TIMES_SKIPPING_ULEB, n
\* iterations left.
RECURSIVE TimesLoop(_, _, _, _, _, _)
TimesLoop(bi, off, sos, imps, n, skip_plus_size) ==
    IF n = 0 THEN Outcome("ok", bi, off, sos, imps)
    ELSE LET r == ImportNew(bi, sos)
         IN  IF r.panicked THEN Outcome("panic", bi, off, sos, imps)
             ELSE TimesLoop([bi EXCEPT !.seg_offset = WrappingAdd(@, skip_plus_size)],
                            off, sos, Push(imps, r.value), n - 1, skip_plus_size)

\* BIND_OPCODE_DO_BIND_ULEB_TIMES_SKIPPING_ULEB.  skip + ctx.size() is a
\* plain `+`.
OnDoBindUlebTimesSkippingUleb(bi, off, sos, imps, imm) ==
    LET count == Uleb128Read(data, off)
        skip  == Uleb128Read(data, off + count.size)
        skip_plus_size == CheckedAdd(skip.value, ToU64(ctx_size))
    IN  IF ~count.ok \/ ~skip.ok THEN Outcome("decode", bi, off, sos, imps)
        ELSE IF skip_plus_size.panicked THEN Outcome("panic", bi, off, sos, imps)
        ELSE TimesLoop(bi, off + count.size + skip.size, sos, imps,
                       SmallValue(count.value), skip_plus_size.value)

\* The repeat count at off is one the model unrolls (or does not decode).
CountWithinBound(off) ==
    LET count == Uleb128Read(data, off)
    IN  count.ok => SmallValue(count.value) \in 0..MaxCount

\* An unknown opcode rejected as a decode error.
OnOtherRejected(bi, off, sos, imps, imm) == Outcome("decode", bi, off, sos, imps)

\* `_ => {}`
OnOther(bi, off, sos, imps, imm) == Outcome("ok", bi, off, sos, imps)

\* ---------------------------------------------------------------- run
\* run() as a function of its arguments.  A state of a run is the Outcome of
\* its last iteration.

\* A run that starts from the locals the run before it left.
StartOfRunInherits(lazy, prev, imps) ==
    Outcome("ok", [prev.bind_info EXCEPT !.is_lazy = lazy], Location(lazy).start,
            prev.start_of_sequence, imps)

\* The locals at the head of run(): a fresh record, the cursor at the start
\* of the range, start_of_sequence 0; nothing of prev, the locals of the run
\* before, is carried over.  imps is the caller's vector.
StartOfRun(lazy, prev, imps) ==
    Outcome("ok", BindInformationNew(lazy), Location(lazy).start, 0, imps)

\* No run yet.
NoRun == Outcome("ok", BindInformationDefault, 0, 0, << >>)

\* One iteration of the loop from the locals s: the opcode byte is read and
\* the arm of its opcode taken.
Dispatch(s) ==
    IF ~CanReadByte(data, s.offset) THEN [s EXCEPT !.status = "decode"]
    ELSE LET byte == data[s.offset + 1]
             op   == OpcodeOf(byte)
             imm  == ImmediateOf(byte)
             bi   == s.bind_info
             off  == s.offset + 1
             sos  == s.start_of_sequence
             imps == s.imports
         IN  CASE op = BIND_OPCODE_DONE -> OnDone(bi, off, sos, imps, imm)
               [] op = BIND_OPCODE_SET_DYLIB_ORDINAL_IMM ->
                     OnSetDylibOrdinalImm(bi, off, sos, imps, imm)
               [] op = BIND_OPCODE_SET_DYLIB_ORDINAL_ULEB ->
                     OnSetDylibOrdinalUleb(bi, off, sos, imps, imm)
               [] op = BIND_OPCODE_SET_DYLIB_SPECIAL_IMM ->
                     OnSetDylibSpecialImm(bi, off, sos, imps, imm)
               [] op = BIND_OPCODE_SET_SYMBOL_TRAILING_FLAGS_IMM ->
                     OnSetSymbolTrailingFlagsImm(bi, off, sos, imps, imm)
               [] op = BIND_OPCODE_SET_TYPE_IMM -> OnSetTypeImm(bi, off, sos, imps, imm)
               [] op = BIND_OPCODE_SET_ADDEND_SLEB ->
                     OnSetAddendSleb(bi, off, sos, imps, imm)
               [] op = BIND_OPCODE_SET_SEGMENT_AND_OFFSET_ULEB ->
                     OnSetSegmentAndOffsetUleb(bi, off, sos, imps, imm)
               [] op = BIND_OPCODE_ADD_ADDR_ULEB -> OnAddAddrUleb(bi, off, sos, imps, imm)
               [] op = BIND_OPCODE_DO_BIND -> OnDoBind(bi, off, sos, imps, imm)
               [] op = BIND_OPCODE_DO_BIND_ADD_ADDR_ULEB ->
                     OnDoBindAddAddrUleb(bi, off, sos, imps, imm)
               [] op = BIND_OPCODE_DO_BIND_ADD_ADDR_IMM_SCALED ->
                     OnDoBindAddAddrImmScaled(bi, off, sos, imps, imm)
               [] op = BIND_OPCODE_DO_BIND_ULEB_TIMES_SKIPPING_ULEB ->
                     OnDoBindUlebTimesSkippingUleb(bi, off, sos, imps, imm)
               [] OTHER -> OnOther(bi, off, sos, imps, imm)

\* The loop of a run has ended: an iteration failed or the cursor is at or
\* past the end of the range.
RunEnded(lazy, s) == s.status # "ok" \/ s.offset >= Location(lazy).end

\* run(lazy, ..) from the locals s to its end.
RECURSIVE Run(_, _)
Run(lazy, s) == IF RunEnded(lazy, s) THEN s ELSE Run(lazy, Dispatch(s))

\* ------------------------------------------------------------ imports

\* A failure that hands the caller the imports pushed so far.
FailResultKeepsImports(status, imps) ==
    [tag |-> IF status = "decode" THEN "Err" ELSE "Panic", val |-> imps]

\* What the caller gets: Ok(imports), the Err a `?` propagated, or no value
\* at all when the call panicked.  The Vec of an Err or a panic is dropped.
OkResult(imps) == [tag |-> "Ok", val |-> imps]

FailResult(status, imps) ==
    [tag |-> IF status = "decode" THEN "Err" ELSE "Panic", val |-> << >>]

\* imports() has not returned yet.
Pending == [tag |-> "Pending", val |-> << >>]

\* imports() as a function of its arguments: run(false) then run(true) on one
\* vector, the second not entered when the first fails.
SequentialImports ==
    LET eager == Run(FALSE, StartOfRun(FALSE, NoRun, << >>))
        lazy  == Run(TRUE, StartOfRun(TRUE, eager, eager.imports))
    IN  IF eager.status # "ok" THEN FailResult(eager.status, eager.imports)
        ELSE IF lazy.status # "ok" THEN FailResult(lazy.status, lazy.imports)
        ELSE OkResult(lazy.imports)

LogEntry(byte, status) ==
    [lazy |-> is_lazy, at |-> offset - Location(is_lazy).start,
     opcode |-> byte, status |-> status]

\* The locals after one iteration; a failed iteration ends imports().
Commit(o) ==
    /\ bind_info' = o.bind_info
    /\ offset' = o.offset
    /\ start_of_sequence' = o.start_of_sequence
    /\ imports' = o.imports
    /\ log' = Append(log, LogEntry(data[offset + 1], o.status))
    /\ pc' = IF o.status = "ok" THEN "run" ELSE "returned"
    /\ ret' = IF o.status = "ok" THEN ret ELSE FailResult(o.status, o.imports)
    /\ UNCHANGED <<inputs, is_lazy, passes, previous>>

\* while offset < location.end
InLoop ==
    /\ pc = "run"
    /\ offset < Location(is_lazy).end

\* The loop is about to execute an opcode of ops: the opcode byte is read
\* and opcode & BIND_OPCODE_MASK matched.
Fetching(ops) ==
    /\ InLoop
    /\ CanReadByte(data, offset)
    /\ OpcodeOf(data[offset + 1]) \in ops

\* opcode & BIND_IMMEDIATE_MASK of the opcode byte at the cursor.
Immediate == ImmediateOf(data[offset + 1])

\* An opcode read past the buffer taken for the end of the stream.
ReadOpcodeStops ==
    /\ InLoop
    /\ ~CanReadByte(data, offset)
    /\ pc' = "returned"
    /\ ret' = OkResult(imports)
    /\ log' = Append(log, LogEntry(-1, "ok"))
    /\ UNCHANGED <<inputs, is_lazy, bind_info, offset, start_of_sequence, imports, passes, previous>>

\* self.data.gread::<i8>(&mut offset)? fails: the range runs past the buffer.
ReadOpcodeFails ==
    /\ InLoop
    /\ ~CanReadByte(data, offset)
    /\ pc' = "returned"
    /\ ret' = FailResult("decode", imports)
    /\ log' = Append(log, LogEntry(-1, "decode"))
    /\ UNCHANGED <<inputs, is_lazy, bind_info, offset, start_of_sequence, imports, passes, previous>>

\* One iteration of the loop, one action per arm of the match.
Done ==
    /\ Fetching({BIND_OPCODE_DONE})
    /\ Commit(OnDone(bind_info, offset + 1, start_of_sequence, imports,
                     Immediate))

SetDylibOrdinalImm ==
    /\ Fetching({BIND_OPCODE_SET_DYLIB_ORDINAL_IMM})
    /\ Commit(OnSetDylibOrdinalImm(bind_info, offset + 1, start_of_sequence, imports,
                                   Immediate))

SetDylibOrdinalUleb ==
    /\ Fetching({BIND_OPCODE_SET_DYLIB_ORDINAL_ULEB})
    /\ Commit(OnSetDylibOrdinalUleb(bind_info, offset + 1, start_of_sequence, imports,
                                    Immediate))

SetDylibSpecialImm ==
    /\ Fetching({BIND_OPCODE_SET_DYLIB_SPECIAL_IMM})
    /\ Commit(OnSetDylibSpecialImm(bind_info, offset + 1, start_of_sequence, imports,
                                   Immediate))

SetSymbolTrailingFlagsImm ==
    /\ Fetching({BIND_OPCODE_SET_SYMBOL_TRAILING_FLAGS_IMM})
    /\ Commit(OnSetSymbolTrailingFlagsImm(bind_info, offset + 1, start_of_sequence, imports,
                                          Immediate))

SetTypeImm ==
    /\ Fetching({BIND_OPCODE_SET_TYPE_IMM})
    /\ Commit(OnSetTypeImm(bind_info, offset + 1, start_of_sequence, imports,
                           Immediate))

SetAddendSleb ==
    /\ Fetching({BIND_OPCODE_SET_ADDEND_SLEB})
    /\ Commit(OnSetAddendSleb(bind_info, offset + 1, start_of_sequence, imports,
                              Immediate))

SetSegmentAndOffsetUleb ==
    /\ Fetching({BIND_OPCODE_SET_SEGMENT_AND_OFFSET_ULEB})
    /\ Commit(OnSetSegmentAndOffsetUleb(bind_info, offset + 1, start_of_sequence, imports,
                                        Immediate))

AddAddrUleb ==
    /\ Fetching({BIND_OPCODE_ADD_ADDR_ULEB})
    /\ Commit(OnAddAddrUleb(bind_info, offset + 1, start_of_sequence, imports,
                            Immediate))

DoBind ==
    /\ Fetching({BIND_OPCODE_DO_BIND})
    /\ Commit(OnDoBind(bind_info, offset + 1, start_of_sequence, imports,
                       Immediate))

DoBindAddAddrUleb ==
    /\ Fetching({BIND_OPCODE_DO_BIND_ADD_ADDR_ULEB})
    /\ Commit(OnDoBindAddAddrUleb(bind_info, offset + 1, start_of_sequence, imports,
                                  Immediate))

DoBindAddAddrImmScaled ==
    /\ Fetching({BIND_OPCODE_DO_BIND_ADD_ADDR_IMM_SCALED})
    /\ Commit(OnDoBindAddAddrImmScaled(bind_info, offset + 1, start_of_sequence, imports,
                                       Immediate))

DoBindUlebTimesSkippingUleb ==
    /\ Fetching({BIND_OPCODE_DO_BIND_ULEB_TIMES_SKIPPING_ULEB})
    /\ CountWithinBound(offset + 1)
    /\ Commit(OnDoBindUlebTimesSkippingUleb(bind_info, offset + 1, start_of_sequence, imports,
                                            Immediate))

OtherOpcode ==
    /\ Fetching({208, 224, 240})
    /\ Commit(OnOther(bind_info, offset + 1, start_of_sequence, imports,
                      Immediate))

\* self.run(false, ..)? returned Ok(()): imports() goes on to run(true, ..).
EagerPassEnds ==
    /\ pc = "run"
    /\ ~is_lazy
    /\ offset >= location.end
    /\ is_lazy' = TRUE
    /\ bind_info' = BindInformationNew(TRUE)
    /\ offset' = lazy_location.start
    /\ start_of_sequence' = 0
    /\ UNCHANGED <<inputs, pc, imports, ret, log, passes, previous>>

\* self.run(true, ..)? returned Ok(()): imports() returns Ok(imports).
LazyPassEnds ==
    /\ pc = "run"
    /\ is_lazy
    /\ offset >= lazy_location.end
    /\ pc' = "returned"
    /\ ret' = OkResult(imports)
    /\ UNCHANGED <<inputs, is_lazy, bind_info, offset, start_of_sequence, imports, log,
                   passes, previous>>

\* ------------------------------------------------------------- inputs

\* The LEB128 encoding of 2^64 - 1.
Max64Leb == <<255, 255, 255, 255, 255, 255, 255, 255, 255, 1>>

\* A record set up the way a compiled stream does it, every setter once:
\* SET_DYLIB_ORDINAL_IMM(1), SET_DYLIB_SPECIAL_IMM(0),
\* SET_SYMBOL_TRAILING_FLAGS_IMM("f", weak), SET_TYPE_IMM(2),
\* SET_ADDEND_SLEB(-1), SET_SEGMENT_AND_OFFSET_ULEB(1, 16).
SetUp == <<17, 48, 65, 102, 0, 82, 96, 127, 113, 16>>

\* A whole binding sequence: the record set up, DO_BIND, DONE.
Bound == SetUp \o <<144, 0>>

\* SET_SYMBOL_TRAILING_FLAGS_IMM("foo", 0), SET_SEGMENT_AND_OFFSET_ULEB(0, 16),
\* DO_BIND, DONE.
Foo == <<64, 102, 111, 111, 0, 112, 16, 144, 0>>

\* Encoded opcodes an input buffer is assembled from: every opcode, with
\* operands in and out of the tables' ranges, values near 2^64, and
\* operands cut short (which then run into the bytes that follow).
Fragments ==
    { <<0>>,                        \* DONE
      SetUp,
      Bound,
      Foo,
      <<18>>,                       \* SET_DYLIB_ORDINAL_IMM(2)
      <<32, 2>>,                    \* SET_DYLIB_ORDINAL_ULEB(2)
      <<32, 129, 2>>,               \* SET_DYLIB_ORDINAL_ULEB(257)
      <<64, 103>>,                  \* SET_SYMBOL_TRAILING_FLAGS_IMM("g.., no null
      <<114, 0>>,                   \* SET_SEGMENT_AND_OFFSET_ULEB(2, 0)
      <<128>>,                      \* ADD_ADDR_ULEB, operand missing
      <<128>> \o Max64Leb,          \* ADD_ADDR_ULEB(2^64 - 1)
      <<144>>,                      \* DO_BIND
      <<160>>,                      \* DO_BIND_ADD_ADDR_ULEB, operand missing
      <<178>>,                      \* DO_BIND_ADD_ADDR_IMM_SCALED(2)
      <<192, 2, 4>>,                \* DO_BIND_ULEB_TIMES_SKIPPING_ULEB(2, 4)
      <<192, 4, 4>>,                \* DO_BIND_ULEB_TIMES_SKIPPING_ULEB(4, 4)
      <<192, 1>> \o Max64Leb,       \* DO_BIND_ULEB_TIMES_SKIPPING_ULEB(1, 2^64 - 1)
      <<208>>,                      \* no opcode
      <<255>> }                     \* no opcode; -1 as the i8 read

RECURSIVE Flatten(_)
Flatten(ss) == IF ss = << >> THEN << >> ELSE Head(ss) \o Flatten(Tail(ss))

Programs == UNION { [1..n -> Fragments] : n \in 0..MaxOps }

\* The dyld-info load commands over a buffer assembled from the fragments
\* of p: the eager stream is the first k fragments, the lazy stream the
\* rest of the buffer; for k = Len(p) + 1 the eager range is the whole
\* buffer and one byte more, for k = Len(p) + 2 the eager range is the
\* whole buffer and the lazy range the one byte after it.
Command(p, k) ==
    LET total == Len(Flatten(p))
        eager == IF k = Len(p) + 1 THEN total + 1
                 ELSE IF k = Len(p) + 2 THEN total
                 ELSE Len(Flatten(SubSeq(p, 1, k)))
    IN  [bind_off |-> 0, bind_size |-> eager, lazy_bind_off |-> eager,
         lazy_bind_size |-> IF k = Len(p) + 2 THEN 1
                            ELSE IF eager > total THEN 0 ELSE total - eager]

SegmentTable ==
    << [fileoff |-> ToU64(4096), vmaddr |-> ToU64(16384)],
       [fileoff |-> ToU64(8192), vmaddr |-> ToU64(32768)] >>

LibraryTable == << "libA.dylib", "libB.dylib" >>

\* get_pos of BindInterpreter::new: start.saturating_add(size) on two u32
\* widened to usize.  The sum of two u32 is below usize::MAX (64-bit usize),
\* so the end is the sum itself; it is never checked against the buffer.
GetPos(off, size) == [start |-> off, end |-> off + size]

\* BindInterpreter::new, then the start of imports(): the state when
\* run(false, ..) enters its loop.
Init ==
    /\ \E p \in Programs : \E k \in 0..(Len(p) + 2) :
          LET command == Command(p, k)
          IN  /\ data = Flatten(p)
              /\ location = GetPos(command.bind_off, command.bind_size)
              /\ lazy_location = GetPos(command.lazy_bind_off, command.lazy_bind_size)
    /\ libs = LibraryTable
    /\ segments = SegmentTable
    /\ ctx_size \in {4, 8}
    /\ overflow_checks \in BOOLEAN
    /\ pc = "run"
    /\ is_lazy = FALSE
    /\ bind_info = BindInformationNew(FALSE)
    /\ offset = location.start
    /\ start_of_sequence = 0
    /\ imports = << >>
    /\ ret = Pending
    /\ log = << >>
    /\ passes = [eager |-> StartOfRun(FALSE, NoRun, << >>),
                 lazy  |-> StartOfRun(TRUE, NoRun, << >>)]
    /\ previous = Pending

Next ==
    \/ Done
    \/ SetDylibOrdinalImm
    \/ SetDylibOrdinalUleb
    \/ SetDylibSpecialImm
    \/ SetSymbolTrailingFlagsImm
    \/ SetTypeImm
    \/ SetAddendSleb
    \/ SetSegmentAndOffsetUleb
    \/ AddAddrUleb
    \/ DoBind
    \/ DoBindAddAddrUleb
    \/ DoBindAddAddrImmScaled
    \/ DoBindUlebTimesSkippingUleb
    \/ OtherOpcode
    \/ ReadOpcodeFails
    \/ EagerPassEnds
    \/ LazyPassEnds

Spec == Init /\ [][Next]_vars

\* ------------------------------------------------------- a second call
\* The caller calls imports() again on the same interpreter, with the same
\* tables and pointer width.

\* A second call that goes on with the vector of the first.
ImportsAgainOnTheSameVector ==
    /\ pc = "returned"
    /\ previous = Pending
    /\ previous' = ret
    /\ ret' = Pending
    /\ pc' = "run"
    /\ is_lazy' = FALSE
    /\ bind_info' = BindInformationNew(FALSE)
    /\ offset' = location.start
    /\ start_of_sequence' = 0
    /\ log' = << >>
    /\ UNCHANGED <<inputs, imports, passes>>

\* imports() entered again: a new vector, and run(false, ..) at the head of
\* its loop.
ImportsAgain ==
    /\ pc = "returned"
    /\ previous = Pending
    /\ previous' = ret
    /\ ret' = Pending
    /\ pc' = "run"
    /\ is_lazy' = FALSE
    /\ bind_info' = BindInformationNew(FALSE)
    /\ offset' = location.start
    /\ start_of_sequence' = 0
    /\ imports' = << >>
    /\ log' = << >>
    /\ UNCHANGED <<inputs, passes>>

NextTwice ==
    \/ Next
    \/ ImportsAgain

SpecTwice == Init /\ [][NextTwice]_vars

\* ------------------------------------------------- the passes run apart
\* The two runs of imports() started independently, each on a vector of its
\* own, their iterations interleaved in any order; the caller joins the two
\* vectors, the eager one first.

sequential == <<pc, is_lazy, bind_info, offset, start_of_sequence, imports, ret, log>>

EagerStep ==
    /\ pc = "run"
    /\ ~RunEnded(FALSE, passes.eager)
    /\ passes' = [passes EXCEPT !.eager = Dispatch(@)]
    /\ UNCHANGED <<inputs, sequential, previous>>

LazyStep ==
    /\ pc = "run"
    /\ ~RunEnded(TRUE, passes.lazy)
    /\ passes' = [passes EXCEPT !.lazy = Dispatch(@)]
    /\ UNCHANGED <<inputs, sequential, previous>>

Join ==
    /\ pc = "run"
    /\ RunEnded(FALSE, passes.eager)
    /\ RunEnded(TRUE, passes.lazy)
    /\ pc' = "returned"
    /\ ret' = IF passes.eager.status # "ok"
              THEN FailResult(passes.eager.status, passes.eager.imports)
              ELSE IF passes.lazy.status # "ok"
              THEN FailResult(passes.lazy.status, passes.lazy.imports)
              ELSE OkResult(passes.eager.imports \o passes.lazy.imports)
    /\ UNCHANGED <<inputs, is_lazy, bind_info, offset, start_of_sequence, imports, log,
                   passes, previous>>

NextApart ==
    \/ EagerStep
    \/ LazyStep
    \/ Join

SpecApart == Init /\ [][NextApart]_vars

\* ------------------------------------------------- reading the history

EmittingOpcodes ==
    {BIND_OPCODE_DO_BIND, BIND_OPCODE_DO_BIND_ADD_ADDR_ULEB,
     BIND_OPCODE_DO_BIND_ADD_ADDR_IMM_SCALED,
     BIND_OPCODE_DO_BIND_ULEB_TIMES_SKIPPING_ULEB}

\* The offset in the buffer of the opcode byte of a log entry.
ByteOffsetOf(e) == Location(e.lazy).start + e.at

\* How many imports the opcode table makes a logged iteration emit, read
\* from the stream's bytes.
EmitCount(e) ==
    IF e.status = "panic" \/ e.opcode < 0 THEN 0
    ELSE IF OpcodeOf(e.opcode) = BIND_OPCODE_DO_BIND_ULEB_TIMES_SKIPPING_ULEB
    THEN IF e.status = "ok"
         THEN SmallValue(Uleb128Read(data, ByteOffsetOf(e) + 1).value)
         ELSE 0
    ELSE IF OpcodeOf(e.opcode) \in EmittingOpcodes THEN 1
    ELSE 0

RECURSIVE EmittedUpTo(_)
EmittedUpTo(i) == IF i = 0 THEN 0 ELSE EmittedUpTo(i - 1) + EmitCount(log[i])

\* The log entry of the iteration that emitted the j-th import.
EmitterOf(j) ==
    CHOOSE i \in DOMAIN log : EmittedUpTo(i - 1) < j /\ j <= EmittedUpTo(i)

\* The DONE iterations of the same pass before log entry i.
DonesBefore(i) ==
    { d \in 1..(i - 1) : /\ log[d].lazy = log[i].lazy
                         /\ log[d].opcode >= 0
                         /\ OpcodeOf(log[d].opcode) = BIND_OPCODE_DONE }

LastDoneBefore(i) == CHOOSE d \in DonesBefore(i) : \A x \in DonesBefore(i) : x <= d

Returned(tag) == pc = "returned" /\ ret.tag = tag

\* --------------------------------------------------------------- claims

\* C1: whenever an emitting opcode executes while the record's seg_index
\* or library ordinal is outside the supplied table, imports() returns an
\* error value (it does not panic).
C1_OutOfRangeIndexIsAnError ==
    [][(/\ Fetching(EmittingOpcodes \ {BIND_OPCODE_DO_BIND_ULEB_TIMES_SKIPPING_ULEB})
        /\ \/ bind_info.seg_index >= Len(segments)
           \/ bind_info.symbol_library_ordinal >= Len(libs))
       => ret'.tag = "Err"]_vars

\* C2: a stream that executes SET_DYLIB_ORDINAL_ULEB with a decoded value at
\* or above the length of the library table, and then binds with that
\* ordinal, makes imports() return an error.
C2_UlebOrdinalOutOfRangeIsAnError ==
    (/\ pc = "returned"
     /\ \E i \in DOMAIN log :
          /\ i < Len(log)
          /\ log[i].status = "ok"
          /\ log[i].opcode >= 0
          /\ OpcodeOf(log[i].opcode) = BIND_OPCODE_SET_DYLIB_ORDINAL_ULEB
          /\ LET v == Uleb128Read(data, ByteOffsetOf(log[i]) + 1).value
             IN  SmallValue(v) = -1 \/ SmallValue(v) >= Len(libs)
          /\ log[i + 1].lazy = log[i].lazy
          /\ log[i + 1].opcode >= 0
          /\ OpcodeOf(log[i + 1].opcode) = BIND_OPCODE_DO_BIND)
    => ret.tag = "Err"

\* C3: an operand read never consumes a byte at or beyond the end of the
\* pass's range without failing: while a pass runs, the cursor is never
\* beyond the end of its range.
C3_OperandsStayInsideTheRange ==
    pc = "run" => offset <= Location(is_lazy).end

\* C4: SET_SYMBOL_TRAILING_FLAGS_IMM whose string has no null byte before
\* the end of the pass's range makes imports() fail: no call returns Ok
\* after executing one.
C4_UnterminatedSymbolIsAnError ==
    Returned("Ok") =>
        \A i \in DOMAIN log :
            (/\ log[i].opcode >= 0
             /\ OpcodeOf(log[i].opcode) = BIND_OPCODE_SET_SYMBOL_TRAILING_FLAGS_IMM)
            => NullAt(data, ByteOffsetOf(log[i]) + 1) < Location(log[i].lazy).end

\* C5: when a pass fails, the caller gets no import at all: once an
\* iteration has failed, imports() has returned, its result is a failure and
\* carries none of the imports pushed before.
C5_NoPartialResult ==
    /\ (\E i \in DOMAIN log : log[i].status # "ok")
          => /\ pc = "returned"
             /\ ret.tag \in {"Err", "Panic"}
             /\ ret.val = << >>
    /\ ret.tag = "Ok" => \A i \in DOMAIN log : log[i].status = "ok"

\* C5 witness: the eager pass emitted, then DO_BIND_ADD_ADDR_ULEB of the lazy
\* pass pushed an import and failed to decode its operand.
C5_FailureAfterEmissions ==
    /\ Returned("Err")
    /\ is_lazy
    /\ Len(imports) >= 2
    /\ ~imports[1].is_lazy
    /\ imports[Len(imports)].is_lazy
    /\ OpcodeOf(log[Len(log)].opcode) = BIND_OPCODE_DO_BIND_ADD_ADDR_ULEB

\* The start_of_sequence_offset the j-th import should carry: 0 before any
\* DONE of its pass, else the offset of the last DONE before it plus k.
ExpectedStart(j, k) ==
    LET i == EmitterOf(j)
    IN  IF DonesBefore(i) = {} THEN 0 ELSE log[LastDoneBefore(i)].at + k

\* C6, as claimed: an import emitted after a DONE carries the offset of that
\* DONE opcode byte itself, relative to the start of the stream.
C6_StartIsOffsetOfDone ==
    ret.tag # "Panic" =>
        \A j \in DOMAIN imports :
            imports[j].start_of_sequence_offset = ExpectedStart(j, 0)

\* C6, amended: an import emitted after a DONE carries the offset of the byte
\* that follows that DONE opcode byte (the cursor once DONE is read),
\* relative to the start of the pass's stream; before any DONE it carries 0.
C6_StartIsOffsetAfterDone ==
    ret.tag # "Panic" =>
        \A j \in DOMAIN imports :
            imports[j].start_of_sequence_offset = ExpectedStart(j, 1)

\* C6 witness: an import before any DONE, then two imports after a DONE that
\* is not the first byte of the stream.
C6_ImportsAfterDone ==
    /\ ret.tag # "Panic"
    /\ Len(imports) >= 3
    /\ imports[1].start_of_sequence_offset = 0
    /\ imports[2].start_of_sequence_offset > 1
    /\ imports[3].start_of_sequence_offset = imports[2].start_of_sequence_offset

\* C7: DONE resets every field of the record to the defaults of the pass,
\* whatever it held, emits nothing and does not end the pass.
C7_DoneResetsTheRecord ==
    [][Fetching({BIND_OPCODE_DONE}) =>
        /\ bind_info' = [seg_index |-> 0, seg_offset |-> Zero64,
                         bind_type |-> IF is_lazy THEN BIND_TYPE_POINTER ELSE 0,
                         special_dylib |-> 1, symbol_library_ordinal |-> 0,
                         symbol_name |-> << >>, symbol_flags |-> 0,
                         addend |-> Zero64, is_lazy |-> is_lazy]
        /\ imports' = imports
        /\ is_lazy' = is_lazy
        /\ pc' = "run"
        /\ ret' = ret
        /\ offset' = offset + 1]_vars

\* C7 witness: in the lazy pass, DONE ran on a record whose every field had
\* been set, and the opcode after it was executed.
C7_DoneAfterSetUp ==
    \E i \in DOMAIN log :
        /\ i >= 7
        /\ i < Len(log)
        /\ log[i].lazy
        /\ log[i].opcode = BIND_OPCODE_DONE
        /\ log[i + 1].lazy
        /\ log[i + 1].at = log[i].at + 1
        /\ \A x \in 1..(i - 1) : log[x].lazy /\ log[x].opcode # BIND_OPCODE_DONE

\* n wrapping additions of step to v.
RECURSIVE AddTimes(_, _, _)
AddTimes(v, step, n) == IF n = 0 THEN v ELSE AddTimes(WrappingAdd(v, step), step, n - 1)

\* Import::new succeeds on each of the n emissions of a repeated bind.
RECURSIVE EmitsWithoutFault(_, _, _)
EmitsWithoutFault(bi, n, step) ==
    \/ n = 0
    \/ /\ ~ImportNew(bi, 0).panicked
       /\ EmitsWithoutFault([bi EXCEPT !.seg_offset = WrappingAdd(@, step)], n - 1, step)

\* C8: DO_BIND_ULEB_TIMES_SKIPPING_ULEB whose operands decode and whose
\* emissions succeed never faults, and leaves seg_offset advanced by
\* count * (skip + pointer_size) modulo 2^64.
C8_SegmentOffsetWrapsWithoutFault ==
    [][(/\ Fetching({BIND_OPCODE_DO_BIND_ULEB_TIMES_SKIPPING_ULEB})
        /\ LET count == Uleb128Read(data, offset + 1)
               skip  == Uleb128Read(data, offset + 1 + count.size)
           IN  /\ count.ok
               /\ skip.ok
               /\ SmallValue(count.value) \in 0..MaxCount
               /\ EmitsWithoutFault(bind_info, SmallValue(count.value),
                                    WrappingAdd(skip.value, ToU64(ctx_size))))
       => LET count == Uleb128Read(data, offset + 1)
              skip  == Uleb128Read(data, offset + 1 + count.size)
          IN  /\ pc' = "run"
              /\ bind_info'.seg_offset =
                   AddTimes(bind_info.seg_offset,
                            WrappingAdd(skip.value, ToU64(ctx_size)),
                            SmallValue(count.value))]_vars

C10_LazinessAndSizeFollowThePass ==
    ret.tag # "Panic" =>
        \A j \in DOMAIN imports :
            LET e == log[EmitterOf(j)]
            IN  /\ imports[j].is_lazy = e.lazy
                /\ imports[j].size = IF e.lazy THEN 8 ELSE 0

\* C10 witness: with 4-byte pointers, the lazy pass emitted after a DONE.
C10_LazyImportWithNarrowPointers ==
    /\ ret.tag # "Panic"
    /\ ctx_size = 4
    /\ \E j \in DOMAIN imports :
          /\ imports[j].is_lazy
          /\ imports[j].size = 8
          /\ imports[j].start_of_sequence_offset > 0

\* C11: the import an emitting opcode pushes (the first one, for a repeated
\* bind) is built from the record as it was before the opcode ran: name,
\* addend and weak bit of the record, the library and segment bases looked
\* up by its indices, offset and address the bases plus seg_offset before
\* the advance.  The stream "foo" at segment 0, offset 0x10, alone in the
\* eager range with an empty lazy range, yields exactly one import: foo,
\* offset 0x1010, address 0x4010, not lazy, not weak.
C11_ImportIsSnapshotOfRecord ==
    [][/\ (Fetching(EmittingOpcodes) /\ Len(imports') > Len(imports))
          => LET import  == imports'[Len(imports) + 1]
                 segment == segments[bind_info.seg_index + 1]
             IN  /\ import.name = bind_info.symbol_name
                 /\ import.addend = bind_info.addend
                 /\ import.is_weak = (bind_info.symbol_flags % 2 = 1)
                 /\ import.dylib = libs[bind_info.symbol_library_ordinal + 1]
                 /\ import.offset = WrappingAdd(segment.fileoff, bind_info.seg_offset)
                 /\ import.address = WrappingAdd(segment.vmaddr, bind_info.seg_offset)
       /\ (/\ data = Foo
           /\ location.end = Len(Foo)
           /\ lazy_location.start = lazy_location.end
           /\ pc' = "returned")
          => /\ ret'.tag = "Ok"
             /\ Len(ret'.val) = 1
             /\ ret'.val[1].name = <<102, 111, 111>>
             /\ ret'.val[1].offset = ToU64(4112)
             /\ ret'.val[1].address = ToU64(16400)
             /\ ~ret'.val[1].is_lazy
             /\ ~ret'.val[1].is_weak]_vars

\* C11 witness: imports() returned the one import of the stream "foo".
C11_FooImported ==
    /\ Returned("Ok")
    /\ data = Foo
    /\ location.end = Len(Foo)
    /\ lazy_location.start = lazy_location.end
    /\ Len(ret.val) = 1
    /\ ret.val[1].address = ToU64(16400)

\* C12: DO_BIND_ULEB_TIMES_SKIPPING_ULEB whose operands decode and whose
\* emissions resolve emits exactly count imports, all with the name, dylib,
\* addend and weak flag of the record before the loop, consecutive ones
\* skip + pointer_size apart in offset and address, and leaves seg_offset
\* advanced by count * (skip + pointer_size).
C12_TimesEmitsCountImports ==
    [][(/\ Fetching({BIND_OPCODE_DO_BIND_ULEB_TIMES_SKIPPING_ULEB})
        /\ LET count == Uleb128Read(data, offset + 1)
               skip  == Uleb128Read(data, offset + 1 + count.size)
           IN  /\ count.ok
               /\ skip.ok
               /\ SmallValue(count.value) \in 0..MaxCount
               /\ EmitsWithoutFault(bind_info, SmallValue(count.value),
                                    WrappingAdd(skip.value, ToU64(ctx_size))))
       => LET count == Uleb128Read(data, offset + 1)
              skip  == Uleb128Read(data, offset + 1 + count.size)
              n     == SmallValue(count.value)
              step  == WrappingAdd(skip.value, ToU64(ctx_size))
              first == Len(imports)
          IN  /\ Len(imports') = first + n
              /\ SubSeq(imports', 1, first) = imports
              /\ \A j \in 1..n :
                    /\ imports'[first + j].name = bind_info.symbol_name
                    /\ imports'[first + j].dylib = libs[bind_info.symbol_library_ordinal + 1]
                    /\ imports'[first + j].addend = bind_info.addend
                    /\ imports'[first + j].is_weak = IsWeak(bind_info)
              /\ \A j \in 1..(n - 1) :
                    /\ imports'[first + j + 1].address =
                          WrappingAdd(imports'[first + j].address, step)
                    /\ imports'[first + j + 1].offset =
                          WrappingAdd(imports'[first + j].offset, step)
              /\ bind_info'.seg_offset = AddTimes(bind_info.seg_offset, step, n)]_vars

\* The single-emission bind opcodes.
SingleBinds ==
    {BIND_OPCODE_DO_BIND, BIND_OPCODE_DO_BIND_ADD_ADDR_ULEB,
     BIND_OPCODE_DO_BIND_ADD_ADDR_IMM_SCALED}

\* What a single-emission bind opcode at the cursor adds to seg_offset
\* before the pointer size: nothing, its ULEB operand, or immediate pointers.
ExtraAdvance ==
    LET op == OpcodeOf(data[offset + 1])
    IN  IF op = BIND_OPCODE_DO_BIND_ADD_ADDR_ULEB
        THEN Uleb128Read(data, offset + 1).value
        ELSE IF op = BIND_OPCODE_DO_BIND_ADD_ADDR_IMM_SCALED
        THEN AddTimes(Zero64, ToU64(ctx_size), Immediate)
        ELSE Zero64

\* C13: a single-emission bind opcode whose emission resolves (and whose
\* operand decodes) pushes exactly one import and changes nothing in the
\* record but seg_offset, which grows by pointer_size, by the ULEB plus
\* pointer_size, or by immediate * pointer_size + pointer_size (24 for
\* immediate 2 and 8-byte pointers); start_of_sequence is unchanged.
C13_SingleBindAdvancesOnlySegOffset ==
    [][(/\ Fetching(SingleBinds)
        /\ ~ImportNew(bind_info, start_of_sequence).panicked
        /\ OpcodeOf(data[offset + 1]) = BIND_OPCODE_DO_BIND_ADD_ADDR_ULEB
              => Uleb128Read(data, offset + 1).ok)
       => /\ Len(imports') = Len(imports) + 1
          /\ SubSeq(imports', 1, Len(imports)) = imports
          /\ pc' = "run"
          /\ start_of_sequence' = start_of_sequence
          /\ bind_info' =
                [bind_info EXCEPT !.seg_offset =
                    WrappingAdd(WrappingAdd(@, ExtraAdvance), ToU64(ctx_size))]
          /\ (/\ OpcodeOf(data[offset + 1]) = BIND_OPCODE_DO_BIND_ADD_ADDR_IMM_SCALED
              /\ Immediate = 2
              /\ ctx_size = 8)
             => bind_info'.seg_offset = WrappingAdd(bind_info.seg_offset, ToU64(24))]_vars

\* C13 witness: with 8-byte pointers DO_BIND_ADD_ADDR_IMM_SCALED(2) and the
\* bind opcode right after it emitted the same symbol 24 bytes apart.
C13_SameSymbolAtAdvancedAddress ==
    /\ ctx_size = 8
    /\ Len(log) >= 2
    /\ Len(imports) >= 2
    /\ LET a == log[Len(log) - 1]
           b == log[Len(log)]
           x == imports[Len(imports) - 1]
           y == imports[Len(imports)]
       IN  /\ a.status = "ok" /\ b.status = "ok"
           /\ a.opcode = BIND_OPCODE_DO_BIND_ADD_ADDR_IMM_SCALED + 2
           /\ OpcodeOf(b.opcode) \in SingleBinds
           /\ x.name = y.name
           /\ y.address = WrappingAdd(x.address, ToU64(24))

\* C14: an opcode byte whose high four bits are 0xD0, 0xE0 or 0xF0 is not an
\* error: the iteration moves the cursor one byte on and leaves the record,
\* start_of_sequence, the imports and the pending result as they were.
C14_UnknownOpcodeIsANoOp ==
    [][(/\ InLoop
        /\ CanReadByte(data, offset)
        /\ data[offset + 1] >= 208)
       => /\ pc' = "run"
          /\ ret' = ret
          /\ offset' = offset + 1
          /\ bind_info' = bind_info
          /\ start_of_sequence' = start_of_sequence
          /\ imports' = imports
          /\ is_lazy' = is_lazy]_vars

\* C14 witness: an unknown opcode was skipped with a record that had been
\* set up, and the pass went on.
C14_UnknownOpcodeSkipped ==
    /\ pc = "run"
    /\ Len(log) >= 2
    /\ log[Len(log)].opcode >= 208
    /\ log[Len(log)].status = "ok"
    /\ bind_info.symbol_name # << >>
    /\ bind_info.seg_index = 1

\* C15: the two passes run apart, in any interleaving, and joined eager
\* first give what the sequential imports() gives: they succeed exactly when
\* it does, and then with the same list; nothing the eager run left (record,
\* cursor, start_of_sequence) reaches a lazy emission.
C15_PassesAreIndependent ==
    pc = "returned" =>
        /\ (ret.tag = "Ok") <=> (SequentialImports.tag = "Ok")
        /\ ret.tag = "Ok" => ret.val = SequentialImports.val

\* C15 witness: both runs emitted, the eager one left a record that is not
\* the fresh one, and the joined call succeeded.
C15_BothRunsEmittedApart ==
    /\ Returned("Ok")
    /\ passes.eager.imports # << >>
    /\ passes.lazy.imports # << >>
    /\ passes.eager.bind_info # BindInformationNew(FALSE)
    /\ ret.val = passes.eager.imports \o passes.lazy.imports

\* The imports pushed so far by the eager (lazy = FALSE) or the lazy pass.
EmittedBy(lazy) == {j \in DOMAIN imports : imports[j].is_lazy = lazy}

\* C16: a pass never emits more imports than its range has bytes.
C16_EmissionsBoundedByRange ==
    \A lazy \in BOOLEAN :
        Cardinality(EmittedBy(lazy)) <= Location(lazy).end - Location(lazy).start

\* A range with bytes in it that are not in the buffer.
OutOfBounds(range) == range.start < range.end /\ range.end > Len(data)

\* C17: new() accepts any command: each range is start .. start + size, its
\* end not below its start, in or out of the buffer.  A range with bytes
\* outside the buffer is rejected by the run loop only: imports() never
\* returns Ok with such a range, and fails with a decode error when the
\* opcode read reaches the end of the buffer.
C17_OutOfBoundsRangeRejectedByTheLoop ==
    [][/\ location.start <= location.end
       /\ lazy_location.start <= lazy_location.end
       /\ (OutOfBounds(location) \/ OutOfBounds(lazy_location)) => ret'.tag # "Ok"
       /\ (InLoop /\ ~CanReadByte(data, offset))
             => /\ OutOfBounds(Location(is_lazy))
                /\ pc' = "returned"
                /\ ret'.tag = "Err"]_vars

\* C17 witness: the eager pass emitted and ended, and the lazy pass, whose
\* range lies outside the buffer, failed at its first opcode read.
C17_LazyRangeOutsideTheBuffer ==
    /\ Returned("Err")
    /\ is_lazy
    /\ lazy_location.start = Len(data)
    /\ OutOfBounds(lazy_location)
    /\ Len(imports) >= 1
    /\ log[Len(log)].opcode = -1

C19_EveryPassTerminates ==
    [][/\ (pc = "run" /\ pc' = "run" /\ is_lazy' = is_lazy) => offset' > offset
       /\ (pc = "run" /\ offset >= Location(is_lazy).end)
             => \/ ~is_lazy /\ is_lazy' /\ pc' = "run"
                \/ is_lazy /\ pc' = "returned" /\ ret'.tag = "Ok"
       /\ \A lazy \in BOOLEAN :
             Cardinality({i \in DOMAIN log' : log'[i].lazy = lazy})
                <= Location(lazy).end - Location(lazy).start]_vars

\* C19 witness: imports() returned after both passes ran opcodes, a repeated
\* bind among them, and the eager pass had ended with its cursor at the end
\* of its range.
C19_BothPassesRanToTheEnd ==
    /\ Returned("Ok")
    /\ offset >= lazy_location.end
    /\ \E i, j \in DOMAIN log :
          /\ ~log[i].lazy
          /\ log[j].lazy
          /\ OpcodeOf(log[j].opcode) = BIND_OPCODE_DO_BIND_ULEB_TIMES_SKIPPING_ULEB

\* The values of a four-bit immediate.
Immediates == 0..15

\* An outcome without what special_dylib and bind_type hold.
Unmarked(o) == [o EXCEPT !.bind_info.special_dylib = 0, !.bind_info.bind_type = 0]

\* C20: special_dylib and bind_type are stored and never read.  Whatever
\* the two fields hold, an iteration of the loop has the same outcome but
\* for the two fields themselves: the same imports, the same other fields,
\* cursor and start_of_sequence, the same success or failure; and
\* SET_DYLIB_SPECIAL_IMM and SET_TYPE_IMM have that outcome whatever their
\* immediate, the former leaving the library ordinal alone.  Two streams
\* that differ in those immediates only therefore yield the same imports.
C20_MarkerAndTypeAreNeverRead ==
    [][(InLoop /\ CanReadByte(data, offset))
       => LET now   == Outcome("ok", bind_info, offset, start_of_sequence, imports)
              after == Unmarked(Outcome(IF pc' = "run" THEN "ok"
                                        ELSE log'[Len(log')].status,
                                        bind_info', offset', start_of_sequence',
                                        imports'))
              op    == OpcodeOf(data[offset + 1])
          IN  /\ \A m \in 1..MaxMarker :
                    Unmarked(Dispatch([now EXCEPT
                        !.bind_info.special_dylib = (@ + m) % 16,
                        !.bind_info.bind_type = (@ + m) % 16])) = after
              /\ op = BIND_OPCODE_SET_DYLIB_SPECIAL_IMM
                    => \A imm \in Immediates :
                          LET o == OnSetDylibSpecialImm(bind_info, offset + 1,
                                                        start_of_sequence, imports, imm)
                          IN  /\ Unmarked(o) = after
                              /\ o.bind_info.symbol_library_ordinal =
                                    bind_info.symbol_library_ordinal
              /\ op = BIND_OPCODE_SET_TYPE_IMM
                    => \A imm \in Immediates :
                          Unmarked(OnSetTypeImm(bind_info, offset + 1,
                                                start_of_sequence, imports, imm)) = after]_vars

\* C20 witness: after SET_DYLIB_SPECIAL_IMM(0) and SET_TYPE_IMM(2) on an
\* ordinal of 1, an import of the second library was returned.
C20_ImportAfterMarkerAndType ==
    /\ Returned("Ok")
    /\ Len(ret.val) >= 1
    /\ ret.val[1].dylib = libs[2]
    /\ \E i, j \in DOMAIN log :
          /\ log[i].opcode = BIND_OPCODE_SET_DYLIB_SPECIAL_IMM
          /\ log[j].opcode = BIND_OPCODE_SET_TYPE_IMM + 2
          /\ i < j
          /\ j < EmitterOf(1)

====
